---- MODULE Spec2Model ----
(***************************************************************************)
(* Verification model of the captcha "identity verification" desktop:      *)
(* the App component of src/index.tsx (verification state machine, window  *)
(* collection, z-order counter) and the helpers of src/utils.ts.           *)
(*                                                                         *)
(* React state is modelled as two layers.  The variables mode, inputCode,  *)
(* errorMsg, windows, zCounter, crashTask and crashVisual hold the hook     *)
(* state with every queued update applied in order (what an updater        *)
(* function `prev => ...` receives).  The variable rendered holds the      *)
(* values of the last commit: what the handlers of that commit close over  *)
(* (`windows.length`, `zCounter` read directly in a handler) and what the  *)
(* MacWindow components on screen carry as `data`.  Handlers of discrete   *)
(* events (submit, change, click, mousedown) are committed before the next *)
(* event; updates queued from the interval timer and from the native       *)
(* mousemove listener are committed by a later scheduled render (Render).  *)
(*                                                                         *)
(* Strings the code inspects character by character (the seed code) are    *)
(* sequences of one-character strings.  A window record keeps the fields   *)
(* the handlers read or write (id, x, y, zIndex); type, size, title,       *)
(* content and rotation are written once by createRandomWindow and never   *)
(* read by a handler.  The content of a CODE window is the value returned  *)
(* by generateRandomCode; the variable codeGen holds one call of it (its   *)
(* position, its loop counter i and its local string code).               *)
(***************************************************************************)
EXTENDS Integers, Sequences, FiniteSets, TLC

VARIABLES mode, inputCode, errorMsg, windows, zCounter, crashTask, crashVisual,
          rendered, nextId, drags, ev, codeGen

vars == <<mode, inputCode, errorMsg, windows, zCounter, crashTask, crashVisual,
          rendered, nextId, drags, ev, codeGen>>

----------------------------------------------------------------------------
(* Program constants *)

MAX_WINDOWS == 40

INITIAL_Z == 100

BURST == 5

INPUT_MAX_LENGTH == 10

REPLICA_OFFSET == 20

SUCCESS_CODES ==
    { <<"A","1","B","1">>, <<"A","2","B","2">>, <<"A","3","B","3">>,
      <<"A","4","B","4">>, <<"A","5","B","3">>, <<"A","6","B","1">>,
      <<"A","6","B","2">>, <<"A","6","B","3">> }

ERR_EMPTY == "ERROR: INPUT REQUIRED"

ERR_INVALID == "ERROR: INVALID CODE"

----------------------------------------------------------------------------
(* Bounds of the model *)

\* zCounter values explored above INITIAL_Z + BURST when handlers are also
\* called with ids that are not in the collection
MaxApiSteps == 2

\* zCounter values explored above INITIAL_Z + BURST in the open exploration
MaxLiveSteps == 1
VariedLines == 2
MaxZSteps == 3

\* drag events explored per session
MaxDrags == 1

\* whitespace characters put on each side of a typed code
MaxPad == 1

\* z-order steps explored beyond the MAX_WINDOWS - BURST needed to fill up
CapSlack == 2

\* on-screen windows (from the front of the list) the user acts on near the cap
CapTargets == 1

----------------------------------------------------------------------------
(* String helpers: String.prototype.trim / toUpperCase / substring and the  *)
(* crash regular expression, on sequences of characters.                    *)

WhiteSpace == {" ", "\t"}

RECURSIVE trimStart(_)
trimStart(s) ==
    IF s # <<>> /\ Head(s) \in WhiteSpace THEN trimStart(Tail(s)) ELSE s

RECURSIVE trimEnd(_)
trimEnd(s) ==
    IF s # <<>> /\ s[Len(s)] \in WhiteSpace
    THEN trimEnd(SubSeq(s, 1, Len(s) - 1))
    ELSE s

\* variant: only leading blanks removed
trim_leadingOnly(s) == trimStart(s)

trim(s) == trimEnd(trimStart(s))

upperChar(c) ==
    CASE c = "a" -> "A"
      [] c = "b" -> "B"
      [] c = "z" -> "Z"
      [] OTHER -> c

toUpperCase(s) == [i \in 1..Len(s) |-> upperChar(s[i])]

\* s.substring(a, b) with 0-based, end-exclusive indices, clamped as in JS
substring(s, a, b) ==
    LET lo == IF a < Len(s) THEN a ELSE Len(s)
        hi == IF b < Len(s) THEN b ELSE Len(s)
    IN  SubSeq(s, lo + 1, hi)

\* variant: the task digit class widened to [1-7]
crashRegexTest_wide(code) ==
    /\ Len(code) = 4
    /\ code[1] = "A"
    /\ code[2] \in {"1", "2", "3", "4", "5", "6", "7"}
    /\ code[3] = "B"
    /\ code[4] \in {"1", "2", "3", "4"}

\* /^A[1-6]B[1-4]$/.test(code)
crashRegexTest(code) ==
    /\ Len(code) = 4
    /\ code[1] = "A"
    /\ code[2] \in {"1", "2", "3", "4", "5", "6"}
    /\ code[3] = "B"
    /\ code[4] \in {"1", "2", "3", "4"}

----------------------------------------------------------------------------
(* Window records and the window factory *)

\* an optional argument: <<>> is `undefined`, <<v>> is the value v
undefined == <<>>

nullish(opt, default) == IF opt = undefined THEN default ELSE opt[1]

\* the draws of randomInt explored for a window spawned without a position
\* (randomInt(10, ..) and randomInt(60, ..) can always return their minimum)
RandomPositions == { [x |-> 10, y |-> 60] }

\* createRandomWindow(zIndex, x?, y?, ...): rnd holds the random draws
\* (generateId() and the random position)
createRandomWindow(zIndex, x, y, rnd) ==
    [ id     |-> rnd.id,
      x      |-> nullish(x, rnd.x),
      y      |-> nullish(y, rnd.y),
      zIndex |-> zIndex ]

Ids(ws) == { ws[i].id : i \in DOMAIN ws }

ZOrders(ws) == { ws[i].zIndex : i \in DOMAIN ws }

\* prev.filter(w => w.id !== id)
RECURSIVE filterOut(_, _)
filterOut(ws, id) ==
    IF ws = <<>> THEN <<>>
    ELSE IF Head(ws).id = id THEN filterOut(Tail(ws), id)
    ELSE <<Head(ws)>> \o filterOut(Tail(ws), id)

\* variant: the counter value itself, not its successor
focusZ_same(z) == z

\* the zIndex focusWindow writes, from the zCounter its closure holds
focusZ_two(z) == z + 2

focusZ(z) == z + 1

\* prev.map(w => w.id === id ? { ...w, zIndex: zCounter + 1 } : w)
focusMap(ws, id, z) ==
    [i \in DOMAIN ws |->
        IF ws[i].id = id THEN [ws[i] EXCEPT !.zIndex = focusZ(z)] ELSE ws[i]]

\* variant: the position kept inside the viewport
dragMap_clamped(ws, id, dx, dy) ==
    [i \in DOMAIN ws |->
        IF ws[i].id = id
        THEN [ws[i] EXCEPT !.x = IF @ + dx < 0 THEN 0 ELSE @ + dx,
                           !.y = IF @ + dy < 0 THEN 0 ELSE @ + dy]
        ELSE ws[i]]

\* prev.map(w => w.id === id ? { ...w, x: w.x + dx, y: w.y + dy } : w)
dragMap(ws, id, dx, dy) ==
    [i \in DOMAIN ws |->
        IF ws[i].id = id
        THEN [ws[i] EXCEPT !.x = @ + dx, !.y = @ + dy]
        ELSE ws[i]]

\* variant: a close never replicates
closeMaySpawn_never(n) == FALSE

\* the cap check of closeWindow: `windows.length < MAX_WINDOWS`
closeMaySpawn(n) == n < MAX_WINDOWS

\* the cap check of the interval callback: `prev.length >= MAX_WINDOWS`
tickIsFull_off(n) == n > MAX_WINDOWS

tickIsFull_early(n) == n >= BURST

tickIsFull(n) == n >= MAX_WINDOWS

----------------------------------------------------------------------------
(* generateRandomCode: the content of a CODE window.  A string built from  *)
(* whole snippets and line breaks is the sequence of those pieces.         *)

snippets ==
    << "0x4F3A void main() {",
       "  system.failure(0x00);",
       "  if (human) break;",
       "  // MEMORY LEAK DETECTED",
       "  while(true) { spawn(); }",
       "  <buffer_overflow>",
       "  segmentation fault (core dumped)",
       "  00101010 11001010",
       "  ERROR: CAPTCHA_FAILED",
       "  retrieving: chihuahua.jpg",
       "  analyzing texture...",
       "  geometry.collision(true);" >>

\* the default of the parameter `lines`, the only value a caller passes
lines == 20

lineBreak == "\n"

appendLine_joined(code, s) ==
    IF code = <<>> THEN <<s>> ELSE code \o <<lineBreak, s>>

\* code += randomItem(snippets) + "\n"
appendLine(code, s) == code \o <<s, lineBreak>>

\* no call of generateRandomCode is running
GenIdle == [ pc |-> "idle", i |-> 0, code |-> <<>> ]

----------------------------------------------------------------------------
(* State *)

\* the values one commit hands to the handlers and components it creates
Snapshot(m, ic, em, ws, z, ct, cv) ==
    [ mode |-> m, inputCode |-> ic, errorMsg |-> em, windows |-> ws,
      zCounter |-> z, crashTask |-> ct, crashVisual |-> cv ]

Current ==
    Snapshot(mode, inputCode, errorMsg, windows, zCounter, crashTask, crashVisual)

\* the event handled last: its handler, its arguments, and the size of the
\* collection, the counter and the presence of the target before it ran
Event(op, id, x, y) ==
    [ op |-> op, id |-> id, x |-> x, y |-> y,
      n |-> Len(windows), z |-> zCounter, found |-> id \in Ids(windows) ]

Init ==
    /\ mode = "intro"
    /\ inputCode = <<>>
    /\ errorMsg = ""
    /\ windows = <<>>
    /\ zCounter = INITIAL_Z
    /\ crashTask = <<>>
    /\ crashVisual = <<>>
    /\ rendered = Snapshot("intro", <<>>, "", <<>>, INITIAL_Z, <<>>, <<>>)
    /\ nextId = 1
    /\ drags = 0
    /\ ev = [op |-> "load", id |-> 0, x |-> 0, y |-> 0,
             n |-> 0, z |-> INITIAL_Z, found |-> FALSE]
    /\ codeGen = GenIdle

\* a commit of React: the handlers and components now hold the current state
Commit == rendered' = Snapshot(mode', inputCode', errorMsg', windows', zCounter',
                               crashTask', crashVisual')

----------------------------------------------------------------------------
(* The intro form *)

\* variant: the form is mounted in every mode
formShown_always(m) == TRUE

\* the form is mounted only by a render in intro mode: {mode === 'intro' && (...)}
formShown(m) == m = "intro"

\* onChange of the input: setInputCode(value); if (errorMsg) setErrorMsg('')
ChangeInput(v) ==
    /\ formShown(rendered.mode)
    /\ Len(v) <= INPUT_MAX_LENGTH
    /\ inputCode' = v
    /\ errorMsg' = IF rendered.errorMsg # "" THEN "" ELSE errorMsg
    /\ ev' = Event("change", 0, 0, 0)
    /\ UNCHANGED <<mode, windows, zCounter, crashTask, crashVisual, nextId, drags>>
    /\ Commit
    /\ UNCHANGED codeGen

\* variant: the burst numbered from INITIAL_Z + 1
seedWindows_fromOne(first, ps) ==
    [i \in 1..BURST |->
        createRandomWindow(INITIAL_Z + i, undefined, undefined,
                           [id |-> first + (i - 1), x |-> ps[i].x, y |-> ps[i].y])]

\* the five windows of the initial burst: createRandomWindow(100 + i, ...),
\* ps[i] the random position drawn for the i-th
seedWindows(first, ps) ==
    [i \in 1..BURST |->
        createRandomWindow(INITIAL_Z + (i - 1), undefined, undefined,
                           [id |-> first + (i - 1), x |-> ps[i].x, y |-> ps[i].y])]

\* the counter handleInputSubmit stores after seeding
seedCounter == INITIAL_Z + BURST

\* variant: the first entry of the list is missing
isSuccessCode_short(code) == code \in SUCCESS_CODES \ { <<"A","1","B","1">> }

\* SUCCESS_CODES.includes(code)
isSuccessCode(code) == code \in SUCCESS_CODES

\* variant: an empty slice
taskIdOf_empty(code) == substring(code, 0, 0)

\* const taskId = code.substring(0, 2)
taskIdOf(code) == substring(code, 0, 2)

\* const visualId = code.substring(2)
visualIdOf(code) == substring(code, 2, Len(code))

handleInputSubmit ==
    /\ formShown(rendered.mode)
    /\ ev' = Event("submit", 0, 0, 0)
    /\ LET code == toUpperCase(trim(rendered.inputCode)) IN
       IF code = <<>> THEN
            /\ errorMsg' = ERR_EMPTY
            /\ UNCHANGED <<mode, windows, zCounter, crashTask, crashVisual, nextId>>
       ELSE IF isSuccessCode(code) THEN
            /\ mode' = "verified"
            /\ UNCHANGED <<errorMsg, windows, zCounter, crashTask, crashVisual, nextId>>
       ELSE IF crashRegexTest(code) THEN
            /\ crashTask' = taskIdOf(code)
            /\ crashVisual' = visualIdOf(code)
            /\ mode' = "crash"
            /\ \E ps \in [1..BURST -> RandomPositions] :
                    windows' = seedWindows(nextId, ps)
            /\ nextId' = nextId + BURST
            /\ zCounter' = seedCounter
            /\ UNCHANGED errorMsg
       ELSE
            /\ errorMsg' = ERR_INVALID
            /\ UNCHANGED <<mode, windows, zCounter, crashTask, crashVisual, nextId>>
    /\ UNCHANGED <<inputCode, drags>>
    /\ Commit
    /\ UNCHANGED codeGen

\* handleRestart: window.location.reload() constructs the page anew
handleRestart ==
    /\ rendered.mode \in {"verified", "crash"}
    /\ mode' = "intro"
    /\ inputCode' = <<>>
    /\ errorMsg' = ""
    /\ windows' = <<>>
    /\ zCounter' = INITIAL_Z
    /\ crashTask' = <<>>
    /\ crashVisual' = <<>>
    /\ nextId' = 1
    /\ drags' = 0
    /\ ev' = Event("restart", 0, 0, 0)
    /\ Commit
    /\ UNCHANGED codeGen

----------------------------------------------------------------------------
(* The crash desktop.  lim bounds zCounter in the exploration. *)

\* the interval callback of the crash loop effect.  The effect is installed by
\* a commit whose mode is 'crash' and closes over that commit's zCounter; a
\* commit that changes zCounter replaces the interval, so an armed interval
\* fires once before the commit of its own update.
Tick(lim) ==
    /\ rendered.mode = "crash"
    /\ rendered.zCounter = zCounter
    /\ zCounter < lim
    /\ ev' = Event("tick", 0, 0, 0)
    /\ IF tickIsFull(Len(windows))
       THEN UNCHANGED <<windows, nextId>>
       ELSE /\ \E p \in RandomPositions :
                 windows' = Append(windows,
                     createRandomWindow(rendered.zCounter, undefined, undefined,
                                        [id |-> nextId, x |-> p.x, y |-> p.y]))
            /\ nextId' = nextId + 1
    /\ zCounter' = zCounter + 1
    /\ UNCHANGED <<mode, inputCode, errorMsg, crashTask, crashVisual, rendered, drags>>
    /\ UNCHANGED codeGen

\* the scheduled render that commits updates queued outside discrete events
Render ==
    /\ rendered # Current
    /\ rendered' = Current
    /\ UNCHANGED <<mode, inputCode, errorMsg, windows, zCounter, crashTask,
                   crashVisual, nextId, drags, ev>>
    /\ UNCHANGED codeGen

\* the two replacement windows closeWindow appends
replicas(newZ, x, y, first) ==
    << createRandomWindow(newZ - 1, <<x - REPLICA_OFFSET>>, <<y - REPLICA_OFFSET>>,
                          [id |-> first, x |-> 0, y |-> 0]),
       createRandomWindow(newZ, <<x + REPLICA_OFFSET>>, <<y + REPLICA_OFFSET>>,
                          [id |-> first + 1, x |-> 0, y |-> 0]) >>

\* closeWindow(id, x, y): the click on a window's close button
closeWindow(id, x, y, lim) ==
    /\ rendered.mode = "crash"
    /\ rendered.zCounter + 2 <= lim
    /\ ev' = Event("close", id, x, y)
    /\ IF closeMaySpawn(Len(rendered.windows))
       THEN LET newZ == rendered.zCounter + 2 IN
            /\ zCounter' = newZ
            /\ windows' = filterOut(windows, id) \o replicas(newZ, x, y, nextId)
            /\ nextId' = nextId + 2
       ELSE /\ windows' = filterOut(windows, id)
            /\ UNCHANGED <<zCounter, nextId>>
    /\ UNCHANGED <<mode, inputCode, errorMsg, crashTask, crashVisual, drags>>
    /\ Commit
    /\ UNCHANGED codeGen

\* focusWindow(id): mousedown / touchstart on a window's body
focusWindow(id, lim) ==
    /\ rendered.mode = "crash"
    /\ zCounter + 1 <= lim
    /\ ev' = Event("focus", id, 0, 0)
    /\ zCounter' = zCounter + 1
    /\ windows' = focusMap(windows, id, rendered.zCounter)
    /\ UNCHANGED <<mode, inputCode, errorMsg, crashTask, crashVisual, nextId, drags>>
    /\ Commit
    /\ UNCHANGED codeGen

\* mousedown / touchstart on a window's title bar: handleStart calls onFocus and
\* the event bubbles to the window's own handler, which calls onFocus again;
\* both calls run in the handlers of one commit
handleStart(id, lim) ==
    /\ rendered.mode = "crash"
    /\ zCounter + 2 <= lim
    /\ ev' = Event("grab", id, 0, 0)
    /\ zCounter' = (zCounter + 1) + 1
    /\ windows' = focusMap(focusMap(windows, id, rendered.zCounter),
                           id, rendered.zCounter)
    /\ UNCHANGED <<mode, inputCode, errorMsg, crashTask, crashVisual, nextId, drags>>
    /\ Commit
    /\ UNCHANGED codeGen

\* the pointer deltas explored for a drag
DragDeltas == { [dx |-> -30, dy |-> 12] }

\* dragWindow(id, dx, dy), called from the native mousemove / touchmove listener
dragWindow(id, dx, dy) ==
    /\ rendered.mode = "crash"
    /\ drags < MaxDrags
    /\ drags' = drags + 1
    /\ ev' = Event("drag", id, dx, dy)
    /\ windows' = dragMap(windows, id, dx, dy)
    /\ UNCHANGED <<mode, inputCode, errorMsg, zCounter, crashTask, crashVisual,
                   nextId, rendered>>
    /\ UNCHANGED codeGen

----------------------------------------------------------------------------
(* generateRandomCode, step by step *)

\* the indices randomItem(snippets) is explored with for line i: every snippet for the
\* first VariedLines lines, one snippet (a different one from line to line)
\* for the lines after them
snippetDraws(i) ==
    IF i < VariedLines THEN DOMAIN snippets ELSE { (i % Len(snippets)) + 1 }

\* the call: let code = ""; i = 0
generateRandomCode ==
    /\ codeGen.pc \in {"idle", "returned"}
    /\ codeGen' = [ pc |-> "loop", i |-> 0, code |-> <<>> ]
    /\ UNCHANGED <<mode, inputCode, errorMsg, windows, zCounter, crashTask,
                   crashVisual, rendered, nextId, drags, ev>>

\* one pass of the for loop
loopBody ==
    /\ codeGen.pc = "loop"
    /\ codeGen.i < lines
    /\ \E k \in snippetDraws(codeGen.i) :
            codeGen' = [ codeGen EXCEPT !.code = appendLine(@, snippets[k]),
                                        !.i = @ + 1 ]
    /\ UNCHANGED <<mode, inputCode, errorMsg, windows, zCounter, crashTask,
                   crashVisual, rendered, nextId, drags, ev>>

\* return code
returnCode ==
    /\ codeGen.pc = "loop"
    /\ ~(codeGen.i < lines)
    /\ codeGen' = [ codeGen EXCEPT !.pc = "returned" ]
    /\ UNCHANGED <<mode, inputCode, errorMsg, windows, zCounter, crashTask,
                   crashVisual, rendered, nextId, drags, ev>>

----------------------------------------------------------------------------
(* Specifications *)

Range(f) == { f[i] : i \in DOMAIN f }

\* codes typed in the sessions that explore the crash desktop
SessionInputs ==
    { <<>>, <<"Z","Z","Z","Z">>, <<"A","6","B","3">>, <<" ","a","1","b","2">> }

\* the open exploration: any event on any window on screen
ZLimit == seedCounter + MaxZSteps

Next ==
    \/ \E v \in SessionInputs : ChangeInput(v)
    \/ handleInputSubmit
    \/ handleRestart
    \/ Tick(ZLimit)
    \/ Render
    \/ \E w \in Range(rendered.windows) : closeWindow(w.id, w.x, w.y, ZLimit)
    \/ \E w \in Range(rendered.windows) : focusWindow(w.id, ZLimit)
    \/ \E w \in Range(rendered.windows) : handleStart(w.id, ZLimit)
    \/ \E w \in Range(rendered.windows) : \E d \in DragDeltas :
            dragWindow(w.id, d.dx, d.dy)

Spec == Init /\ [][Next]_vars

\* the codes typed in the exploration of the intro form: every four-character
\* shape around the crash grammar, in both letter cases, some irregular codes,
\* each with up to MaxPad blanks on either side
Spaces(n) == [i \in 1..n |-> " "]

CodeShapes ==
    { <<t[1], t[2], t[3], t[4]>> :
        t \in {"A", "a", "Z"} \X {"1", "2", "3", "4", "5", "6", "7"}
              \X {"B", "b"} \X {"1", "2", "3", "4", "5"} }

IrregularCodes ==
    { <<>>, <<"A","1","B">>, <<"A","1","B","1","1">>, <<"A","1"," ","B","2">>,
      <<"B","1","A","1">>, <<"\t","a","2","b","3","\t">>, <<"\t">>,
      <<"Z","Z","Z","Z">>, <<"A","0","B","1">>, <<"A","1","B","0">> }

SubmitInputs ==
    { Spaces(l) \o c \o Spaces(r) :
        l \in 0..MaxPad, r \in 0..MaxPad, c \in CodeShapes \cup IrregularCodes }

NextSubmit ==
    \/ \E v \in SubmitInputs : ChangeInput(v)
    \/ handleInputSubmit
    \/ handleRestart

SpecSubmit == Init /\ [][NextSubmit]_vars

\* the exploration of a full desktop: the timer fills the collection and the
\* user acts on the first CapTargets windows once MAX_WINDOWS - 1 are on screen
CapLimit == seedCounter + (MAX_WINDOWS - BURST) + CapSlack

CapInput == <<"A","1","B","2">>

CapWindows ==
    IF Len(rendered.windows) >= MAX_WINDOWS - 1
    THEN { rendered.windows[i] : i \in 1..CapTargets }
    ELSE {}

NextCap ==
    \/ ChangeInput(CapInput)
    \/ handleInputSubmit
    \/ handleRestart
    \/ Tick(CapLimit)
    \/ Render
    \/ \E w \in CapWindows : closeWindow(w.id, w.x, w.y, CapLimit)
    \/ \E w \in CapWindows : focusWindow(w.id, CapLimit)
    \/ \E w \in CapWindows : handleStart(w.id, CapLimit)
    \/ \E w \in CapWindows : \E d \in DragDeltas : dragWindow(w.id, d.dx, d.dy)

SpecCap == Init /\ [][NextCap]_vars

\* the exploration of the crash loop left to run without a restart: the user
\* acts on the first CapTargets windows during the first MaxLiveSteps steps of
\* the counter and again once MAX_WINDOWS - 1 windows are on screen; the
\* interval fires and React renders for as long as the page is in crash mode
LiveLimit == seedCounter + (MAX_WINDOWS - BURST) + MaxLiveSteps + CapSlack

LiveNearFull == Len(rendered.windows) >= MAX_WINDOWS - 1

LiveUserLimit == IF LiveNearFull THEN LiveLimit - 1 ELSE seedCounter + MaxLiveSteps

LiveWindows ==
    IF LiveNearFull \/ rendered.zCounter < seedCounter + MaxLiveSteps
    THEN { rendered.windows[i] : i \in DOMAIN rendered.windows \cap 1..CapTargets }
    ELSE {}

NextLive ==
    \/ ChangeInput(CapInput)
    \/ handleInputSubmit
    \/ Tick(LiveLimit)
    \/ Render
    \/ \E w \in LiveWindows : closeWindow(w.id, w.x, w.y, LiveUserLimit)
    \/ \E w \in LiveWindows : focusWindow(w.id, LiveUserLimit)
    \/ \E w \in LiveWindows : handleStart(w.id, LiveUserLimit)
    \/ \E w \in LiveWindows : \E d \in DragDeltas : dragWindow(w.id, d.dx, d.dy)

SpecLive ==
    /\ Init
    /\ [][NextLive]_vars
    /\ WF_vars(Tick(LiveLimit))
    /\ WF_vars(Render)

\* the handlers called directly, also with ids that are not in the collection
\* (ids of closed windows and an id never handed out) and, for a close, with a
\* position of the caller's choice
ApiLimit == seedCounter + MaxApiSteps

StaleIds == (1..nextId) \ Ids(windows)

ApiPositions == { [x |-> 200, y |-> 150] }

NextApi ==
    \/ ChangeInput(CapInput)
    \/ handleInputSubmit
    \/ handleRestart
    \/ Tick(ApiLimit)
    \/ Render
    \/ \E w \in Range(rendered.windows) : closeWindow(w.id, w.x, w.y, ApiLimit)
    \/ \E w \in Range(rendered.windows) : focusWindow(w.id, ApiLimit)
    \/ \E w \in Range(rendered.windows) : handleStart(w.id, ApiLimit)
    \/ \E w \in Range(rendered.windows) : \E d \in DragDeltas :
            dragWindow(w.id, d.dx, d.dy)
    \/ \E id \in StaleIds : \E p \in ApiPositions : closeWindow(id, p.x, p.y, ApiLimit)
    \/ \E id \in StaleIds : focusWindow(id, ApiLimit)
    \/ \E id \in StaleIds : \E d \in DragDeltas : dragWindow(id, d.dx, d.dy)

SpecApi == Init /\ [][NextApi]_vars

----------------------------------------------------------------------------
(* Vocabulary of the properties *)

Blank == {" ", "\t"}

CaseVariants(c) ==
    CASE c = "A" -> {"A", "a"}
      [] c = "B" -> {"B", "b"}
      [] OTHER -> {c}

\* input is code written in any letter case between any surrounding blanks
Typed(input, code) ==
    \E l \in 0..Len(input) :
        LET r == Len(input) - l - Len(code) IN
        /\ r >= 0
        /\ \A i \in 1..l : input[i] \in Blank
        /\ \A i \in 1..Len(code) : input[l + i] \in CaseVariants(code[i])
        /\ \A i \in 1..r : input[l + Len(code) + i] \in Blank

GrammarCodes ==
    { <<"A", t[1], "B", t[2]>> :
        t \in {"1", "2", "3", "4", "5", "6"} \X {"1", "2", "3", "4"} }

ContextUnset == crashTask = <<>> /\ crashVisual = <<>>

A1B1 == <<"A","1","B","1">>

A2B2 == <<"A","2","B","2">>

----------------------------------------------------------------------------
(* Properties *)

\* C1: in every reachable state the number of live windows is at most
\* MAX_WINDOWS.
C1_WindowsAtMostMax == Len(windows) <= MAX_WINDOWS

\* C2: a submit of a success code, in any letter case and between any
\* surrounding blanks, sets mode to verified, leaves the window collection
\* empty and leaves the crash context unset.
C2_SuccessVerifies ==
    (ev.op = "submit" /\ \E c \in SUCCESS_CODES : Typed(inputCode, c))
        => (mode = "verified" /\ windows = <<>> /\ ContextUnset)

C2_Witness ==
    /\ ev.op = "submit"
    /\ inputCode = <<" ","a","6","b","3"," ">>
    /\ mode = "verified"

\* C3: a submit of a crash-grammar code outside the success set sets mode to
\* crash with taskId the first two characters and visualId the rest of the
\* normalized code, and leaves exactly BURST windows with zIndex 100..104.
C3_CrashSeeds ==
    \A c \in GrammarCodes \ SUCCESS_CODES :
        (ev.op = "submit" /\ Typed(inputCode, c))
            => /\ mode = "crash"
               /\ crashTask = <<c[1], c[2]>>
               /\ crashVisual = <<c[3], c[4]>>
               /\ Len(windows) = 5
               /\ ZOrders(windows) = {100, 101, 102, 103, 104}

C3_Witness ==
    /\ ev.op = "submit"
    /\ inputCode = <<" ","a","5","b","4">>
    /\ mode = "crash"
    /\ Len(windows) = 5

\* C4 (as claimed): a submit of "A1B1" yields crash with taskId "A1" and
\* visualId "B1", and a submit of "A2B2" yields crash with taskId "A2" and
\* visualId "B2".
C4_Original ==
    \A c \in {A1B1, A2B2} :
        (ev.op = "submit" /\ inputCode = c)
            => (mode = "crash" /\ crashTask = <<c[1], c[2]>>
                               /\ crashVisual = <<c[3], c[4]>>)

\* C4 (amended): a submit of "A1B1" or of "A2B2", both success codes, yields
\* verified with the crash context unset.
C4_Amended ==
    \A c \in {A1B1, A2B2} :
        (ev.op = "submit" /\ inputCode = c) => (mode = "verified" /\ ContextUnset)

C4_Witness ==
    /\ ev.op = "submit"
    /\ inputCode = A1B1
    /\ mode = "verified"

\* C5: a submit of an input that is blank sets the error to EMPTY, a submit of
\* a non-blank input that is neither a success code nor a crash-grammar code
\* sets it to INVALID; either way mode stays intro and the window collection,
\* the crash context and zCounter are unchanged.
C5_ErrorsKeepIntro ==
    [][ ev'.op = "submit" =>
          LET blank == Typed(inputCode, <<>>)
              known == \E c \in SUCCESS_CODES \cup GrammarCodes : Typed(inputCode, c)
              frame == /\ mode' = "intro"
                       /\ mode = "intro"
                       /\ UNCHANGED <<windows, crashTask, crashVisual, zCounter>>
          IN  /\ blank => (errorMsg' = ERR_EMPTY /\ frame)
              /\ (~blank /\ ~known) => (errorMsg' = ERR_INVALID /\ frame) ]_vars

C5_Witness ==
    /\ ev.op = "submit"
    /\ inputCode = <<"Z","Z","Z","Z">>
    /\ errorMsg = ERR_INVALID
    /\ mode = "intro"

\* a step that handles a close of a window that is in the collection
CloseOfLive == ev'.op = "close" /\ ev' # ev /\ ev'.id \in Ids(windows)

\* the windows other than id are kept, in order
Survivors(id) ==
    \A w \in Range(windows) : w.id # id => w \in Range(windows')

\* C6: a close of a live window when the collection holds fewer than
\* MAX_WINDOWS windows removes it and appends exactly two windows, at
\* (x-20, y-20) with zIndex zCounter+1 and at (x+20, y+20) with zIndex
\* zCounter+2 (zCounter as it was before the close): the collection grows by
\* one and zCounter advances by two.
C6_CloseBelowCap ==
    [][ (CloseOfLive /\ Len(windows) < MAX_WINDOWS) =>
          LET n == Len(windows) IN
          /\ Len(windows') = n + 1
          /\ ev'.id \notin Ids(windows')
          /\ Survivors(ev'.id)
          /\ windows'[n].x = ev'.x - 20 /\ windows'[n].y = ev'.y - 20
          /\ windows'[n].zIndex = zCounter + 1
          /\ windows'[n + 1].x = ev'.x + 20 /\ windows'[n + 1].y = ev'.y + 20
          /\ windows'[n + 1].zIndex = zCounter + 2
          /\ zCounter' = zCounter + 2 ]_vars

\* C7: a close of a live window when the collection holds MAX_WINDOWS windows
\* removes it and spawns nothing: 39 windows remain and zCounter is unchanged.
C7_CloseAtCap ==
    [][ (CloseOfLive /\ Len(windows) = MAX_WINDOWS) =>
          /\ Len(windows') = MAX_WINDOWS - 1
          /\ ev'.id \notin Ids(windows')
          /\ Survivors(ev'.id)
          /\ zCounter' = zCounter ]_vars

\* the window with the given id
WindowOf(id) == CHOOSE w \in Range(windows) : w.id = id

\* C8: after a focus of a live window (one call from a window body, two from a
\* title bar), its zIndex is strictly greater than that of every other window.
C8_FocusOnTop ==
    (ev.op \in {"focus", "grab"} /\ ev.found) =>
        \A w \in Range(windows) :
            w.id # ev.id => w.zIndex < WindowOf(ev.id).zIndex

\* a focus while another window held the counter's value as its zIndex
C8_Witness ==
    /\ ev.op = "focus"
    /\ ev.found
    /\ \E w \in Range(windows) : w.id # ev.id /\ w.zIndex = ev.z

\* C9: no zIndex value is assigned twice in a session; in particular no two
\* live windows share a zIndex.
C9_ZOrdersNeverReused ==
    \A i, j \in DOMAIN windows : i # j => windows[i].zIndex # windows[j].zIndex

\* C10: the crash context is set exactly when mode is crash, and while mode
\* stays crash it does not change.
C10_ContextIffCrash ==
    /\ [](/\ (crashTask # <<>>) <=> (mode = "crash")
          /\ (crashVisual # <<>>) <=> (mode = "crash"))
    /\ [][ (mode = "crash" /\ mode' = "crash")
               => UNCHANGED <<crashTask, crashVisual>> ]_vars

\* a crash session that has replicated a window and spawned from the timer
C10_Witness ==
    /\ mode = "crash"
    /\ crashTask = <<"A", "1">>
    /\ crashVisual = <<"B", "2">>
    /\ ev.op = "tick"
    /\ Len(windows) > BURST + 1

\* C11: the window collection is empty in intro and verified mode and
\* non-empty in crash mode, whatever windows are closed.
C11_WindowsOnlyInCrash ==
    /\ mode \in {"intro", "verified"} => windows = <<>>
    /\ mode = "crash" => windows # <<>>

C11_Witness ==
    /\ mode = "crash"
    /\ ev.op = "close"
    /\ ev.found
    /\ Len(windows) = BURST + 1

\* C12: mode changes only from intro to verified or crash, by a submit, and to
\* intro by a restart: a tick, close, focus or drag never changes it, and crash
\* and verified never turn into each other.
C12_ModeTransitions ==
    [][ mode' # mode =>
          \/ mode = "intro" /\ mode' \in {"verified", "crash"} /\ ev'.op = "submit"
          \/ mode' = "intro" /\ ev'.op = "restart" ]_vars

\* a crash session that stays in crash through a tick and a title-bar press
C12_Witness ==
    /\ mode = "crash"
    /\ ev.op = "grab"
    /\ Len(windows) > BURST

\* C13: a focus with an id that is not in the collection changes neither the
\* collection nor zCounter.
C13_FocusAbsentNoOp ==
    [][ (ev'.op = "focus" /\ ev' # ev /\ ev'.id \notin Ids(windows))
            => UNCHANGED <<windows, zCounter>> ]_vars

\* C14: a close with an id that is not in the collection removes no window,
\* adds no window and leaves zCounter unchanged.
C14_CloseAbsentNoOp ==
    [][ (ev'.op = "close" /\ ev' # ev /\ ev'.id \notin Ids(windows))
            => UNCHANGED <<windows, zCounter>> ]_vars

\* a close handled while a timer update is still waiting for its render
StaleClose == ev'.op = "close" /\ ev' # ev /\ rendered # Current

\* C15: a close whose cap check reads the count of the last render, handled
\* right after a tick with no render in between, still leaves at most
\* MAX_WINDOWS windows.
C15_StaleCloseKeepsCap ==
    [][ StaleClose => Len(windows') <= MAX_WINDOWS ]_vars

\* a step of the crash loop's interval
TickStep == ev'.op = "tick" /\ ev' # ev

\* C16: a tick on a collection of MAX_WINDOWS windows leaves the collection as
\* it is; a tick on a smaller collection appends exactly one window and keeps
\* every existing window as it was.
C16_TickFrame ==
    [][ TickStep =>
          IF Len(windows) >= MAX_WINDOWS
          THEN windows' = windows
          ELSE /\ Len(windows') = Len(windows) + 1
               /\ SubSeq(windows', 1, Len(windows)) = windows ]_vars

\* a tick was handled on a full collection, which is still full
C16_Witness ==
    /\ ev.op = "tick"
    /\ ev.n = MAX_WINDOWS
    /\ Len(windows) = MAX_WINDOWS

\* a step that handles a drag
DragStep == drags' = drags + 1

\* a step that handles a focus (one call, or the two calls of a title bar)
FocusStep == ev'.op \in {"focus", "grab"} /\ ev' # ev

\* C17: a drag adds (dx, dy) to the position of the window with the given id,
\* unclamped, and changes nothing else (no other field, no other window, not
\* the size of the collection, zCounter or mode), so a drag of an absent id
\* changes nothing; a focus changes only the zIndex of its target and zCounter.
C17_DragAndFocusFrame ==
    [][ /\ DragStep =>
              /\ DOMAIN windows' = DOMAIN windows
              /\ \A i \in DOMAIN windows :
                    windows'[i] =
                        IF windows[i].id = ev'.id
                        THEN [ windows[i] EXCEPT !.x = windows[i].x + ev'.x,
                                                 !.y = windows[i].y + ev'.y ]
                        ELSE windows[i]
              /\ UNCHANGED <<zCounter, mode, crashTask, crashVisual>>
        /\ FocusStep =>
              /\ DOMAIN windows' = DOMAIN windows
              /\ \A i \in DOMAIN windows :
                    /\ windows[i].id # ev'.id => windows'[i] = windows[i]
                    /\ windows'[i] = [windows[i] EXCEPT !.zIndex = windows'[i].zIndex]
              /\ UNCHANGED <<mode, crashTask, crashVisual>> ]_vars

\* a window dragged to the left of the viewport
C17_Witness ==
    /\ ev.op = "drag"
    /\ ev.found
    /\ \E w \in Range(windows) : w.id = ev.id /\ w.x < 0

\* C19: within a session zCounter never decreases, and in every state the
\* zIndex of every live window is at most zCounter.
C19_ZCounterBoundsZOrders ==
    /\ [](\A w \in Range(windows) : w.zIndex <= zCounter)
    /\ [][ev'.op # "restart" => zCounter' >= zCounter]_vars

\* a close below the cap has put a replacement at the counter's new value
C19_Witness ==
    /\ ev.op = "close"
    /\ zCounter > seedCounter
    /\ \E w \in Range(windows) : w.zIndex = zCounter

\* C20: in crash mode there are never fewer than the BURST seeded windows, and
\* when the interval keeps firing and the page is not restarted, crash mode
\* leads to a collection of MAX_WINDOWS windows, whatever closes, focuses and
\* drags are interleaved.
C20_EventuallyFull ==
    /\ [](mode = "crash" => Len(windows) >= BURST)
    /\ (mode = "crash") ~> (Len(windows) >= MAX_WINDOWS)

\* a tick has filled the collection in a session where the user's events
\* moved the counter as well
C20_Witness ==
    /\ mode = "crash"
    /\ ev.op = "tick"
    /\ ev.n = MAX_WINDOWS - 1
    /\ Len(windows) = MAX_WINDOWS
    /\ zCounter > seedCounter + (MAX_WINDOWS - BURST)

\* the generator of CODE contents, called again and again
NextCode ==
    \/ generateRandomCode
    \/ loopBody
    \/ returnCode

SpecCode == Init /\ [][NextCode]_vars

\* s.split(sep) of JavaScript, on a string given as its pieces
RECURSIVE split(_, _)
split(s, sep) ==
    IF \E k \in DOMAIN s : s[k] = sep
    THEN LET k == CHOOSE j \in DOMAIN s :
                     s[j] = sep /\ \A h \in 1..(j - 1) : s[h] # sep
         IN  <<SubSeq(s, 1, k - 1)>> \o split(SubSeq(s, k + 1, Len(s)), sep)
    ELSE <<s>>

\* a line that is one snippet of the pool of twelve
PoolLine(l) ==
    /\ Cardinality(Range(snippets)) = 12
    /\ \E s \in Range(snippets) : l = <<s>>

\* C18 as stated: the content of a CODE window is 20 pool snippets with line
\* breaks only between them, so that splitting on the line break yields
\* exactly 20 elements.
C18_Original ==
    codeGen.pc = "returned" =>
        LET ls == split(codeGen.code, "\n") IN
        /\ Len(ls) = 20
        /\ \A n \in DOMAIN ls : PoolLine(ls[n])

\* C18: the content of a CODE window is 20 pool snippets, each one followed by
\* a line break, the last one too: splitting on the line break yields 21
\* elements, 20 pool snippets and an empty string after the final line break.
C18_Amended ==
    codeGen.pc = "returned" =>
        LET ls == split(codeGen.code, "\n") IN
        /\ Len(ls) = 21
        /\ \A n \in 1..20 : PoolLine(ls[n])
        /\ ls[21] = <<>>

\* a returned content whose first two lines are different snippets
C18_Witness ==
    /\ codeGen.pc = "returned"
    /\ Len(codeGen.code) >= 4
    /\ codeGen.code[1] # codeGen.code[3]

====
